---- MODULE Spec2Model ----
(***************************************************************************)
(* Model of the lodash.com build pipeline (gulpfile.js): the task graph    *)
(* the gulpfile declares, the scheduler that runs it (register / run), and *)
(* the redirect compiler of the build-sw task.                             *)
(***************************************************************************)
EXTENDS Integers, Sequences, FiniteSets, TLC

VARIABLES
  reg,        \* the task registry: name -> [stages, action]
  regError,   \* result of the last register call
  regCall,    \* the arguments of the last register call
  root,       \* the name given to run, "" before run is invoked
  st,         \* per task: "idle", "waiting" (in its stages), "running" (own action in flight), "done", "failed"
  stage,      \* per task: index of the stage it is waiting on (0 = none)
  cause,      \* per task: the failure it ended with
  entered,    \* per task: how many times the scheduler started the task
  started,    \* per task: how many times the task's own action was started
  flog,       \* task names in the order in which they failed
  late,       \* tasks started after some task of the run had already failed
  logged,     \* the failures the callback cb was given: <<task, error>>
  outcome,    \* of run: "none", "pending", "resolved", "rejected"
  runError,   \* the error run rejected with
  redirectsFile, \* the text of _site/_redirects
  swFile,     \* the text of _site/sw.js
  swRead,     \* the text of _site/sw.js as build-sw read it
  entries,    \* build-sw: the compiled entries, in the order they were pushed
  cpc         \* build-sw: "start" before the task ran, "written" after its write

schedVars == <<root, st, stage, cause, entered, started, flog, late, logged, outcome, runError>>
compVars == <<redirectsFile, swFile, swRead, entries, cpc>>
vars == <<reg, regError, regCall, schedVars, compVars>>

(***************************************************************************)
(* The task graph of the gulpfile.  A task holds its dependency sequence   *)
(* (stages, each a set of task names run concurrently) and whether it has  *)
(* a body of its own.                                                      *)
(***************************************************************************)
Leaf == [stages |-> <<>>, action |-> TRUE]

Group(s) == [stages |-> s, action |-> FALSE]

\* build declared with its two stages in the opposite order.
BuildStagesSwapped ==
  << {"build-css", "build-html", "build-images", "build-js"},
     {"build-headers", "build-metadata", "build-redirects"} >>

\* build declared as one array instead of a sequence of two.
BuildStagesMerged ==
  << {"build-headers", "build-metadata", "build-redirects",
      "build-css", "build-html", "build-images", "build-js"} >>

\* build declared with build-config among its first tasks.
BuildStagesWithConfig ==
  << {"build-config", "build-headers", "build-metadata", "build-redirects"},
     {"build-css", "build-html", "build-images", "build-js"} >>

BuildStages ==
  << {"build-headers", "build-metadata", "build-redirects"},
     {"build-css", "build-html", "build-images", "build-js"} >>

\* build-js declared as one array instead of a sequence.
BuildJsStagesFlat == << {"build-sw", "minify-js", "minify-sw"} >>

\* build-js declared with build among the tasks of its second step.
BuildJsStagesCyclic == << {"build-sw"}, {"minify-js", "minify-sw", "build"} >>

BuildJsStages == << {"build-sw"}, {"minify-js", "minify-sw"} >>

\* build-images declared with a misspelt task name.
BuildImagesStagesTypo == << {"build-app-icons"}, {"build-favicons"}, {"minify-images"} >>

BuildImagesStages == << {"build-app-icons"}, {"build-favicon"}, {"minify-images"} >>

\* build-metadata declared without minify-xml.
BuildMetadataStagesShort == << {"minify-json"} >>

BuildMetadataStages == << {"minify-json", "minify-xml"} >>

Gulpfile ==
  ("build-config"    :> Leaf) @@
  ("build-app-icons" :> Leaf) @@
  ("build-css"       :> Group(<< {"minify-css"} >>)) @@
  ("build-favicon"   :> Leaf) @@
  ("build-headers"   :> Leaf) @@
  ("build-html"      :> Group(<< {"minify-html"} >>)) @@
  ("build-images"    :> Group(BuildImagesStages)) @@
  ("build-js"        :> Group(BuildJsStages)) @@
  ("build-metadata"  :> Group(BuildMetadataStages)) @@
  ("build-redirects" :> Leaf) @@
  ("build-sw"        :> Leaf) @@
  ("minify-css"      :> Leaf) @@
  ("minify-html"     :> Leaf) @@
  ("minify-images"   :> Leaf) @@
  ("minify-js"       :> Leaf) @@
  ("minify-json"     :> Leaf) @@
  ("minify-sw"       :> Leaf) @@
  ("minify-xml"      :> Leaf) @@
  ("build"           :> Group(BuildStages))

TaskNames == DOMAIN Gulpfile

\* A name no gulp.task call registers.
UnknownName == "no-such-task"

\* The original errors a task body can fail with.
Errors == {"E1", "E2"}

NoError == [type |-> "none"]

NoCall == [name |-> ""]

DuplicateTaskError(n) == [type |-> "DuplicateTaskError", name |-> n]

UnknownTaskError(n) == [type |-> "UnknownTaskError", name |-> n]

TaskFailureError(n, e) == [type |-> "TaskFailureError", task |-> n, error |-> e]

CycleError(n) == [type |-> "CycleError", name |-> n]

\* A registry in which every pipeline was given cb.
LogAndContinueAll ==
  {"build-app-icons", "minify-css", "minify-html", "minify-images", "minify-js",
   "minify-json", "minify-sw", "minify-xml"}

\* The tasks whose pump(...) call is given the callback cb as last argument.
LogAndContinue ==
  {"build-app-icons", "minify-html", "minify-images", "minify-js",
   "minify-json", "minify-sw", "minify-xml"}

\* The names a task's dependency sequence lists.
Members(r, n) == UNION {r[n].stages[k] : k \in 1..Len(r[n].stages)}

RECURSIVE Closure(_, _, _)
\* S with everything reachable from it; d bounds the depth of the walk.
Closure(r, S, d) ==
  IF d = 0 THEN S
  ELSE LET nxt == S \cup UNION {Members(r, n) : n \in S \cap DOMAIN r}
       IN  IF nxt = S THEN S ELSE Closure(r, nxt, d - 1)

\* The transitive dependencies of n, n excluded (the graph is acyclic).
Deps(r, n) == Closure(r, Members(r, n), Cardinality(DOMAIN r))

(***************************************************************************)
(* The redirect compiler of build-sw.  Texts are sequences of one-character *)
(* strings.                                                                *)
(***************************************************************************)
\* [\t ]
IsBlank(c) == c \in {" ", "\t"}

\* \s, over the characters the tables use
IsSpace(c) == c \in {" ", "\t", "\n", "\r"}

Min(S) == CHOOSE x \in S : \A y \in S : x <= y

Max(S) == CHOOSE x \in S : \A y \in S : x >= y

RECURSIVE FlattenRange(_, _, _)
\* The concatenation of pieces[lo], ..., pieces[hi].
FlattenRange(pieces, lo, hi) ==
  IF lo > hi THEN <<>>
  ELSE IF lo = hi THEN pieces[lo]
  ELSE LET mid == (lo + hi) \div 2
       IN  FlattenRange(pieces, lo, mid) \o FlattenRange(pieces, mid + 1, hi)

Flatten(pieces) == FlattenRange(pieces, 1, Len(pieces))

\* The position after the longest run of [\t ] that starts at i.
SkipBlanks(text, i) ==
  LET stop == {j \in i..Len(text) : ~IsBlank(text[j])}
  IN  IF stop = {} THEN Len(text) + 1 ELSE Min(stop)

\* The position after the longest run of \S that starts at i.
SkipNonSpace(text, i) ==
  LET stop == {j \in i..Len(text) : IsSpace(text[j])}
  IN  IF stop = {} THEN Len(text) + 1 ELSE Min(stop)

\* ^ under the m flag: the start of the text or the position after a line end.
IsLineStart(text, i) == i = 1 \/ text[i - 1] \in {"\n", "\r"}

\* One attempt of /^[\t ]*(\S+)[\t ]+(\S+)(?:[\t ]+(\S+))?/ at position i.
MatchAt(text, i) ==
  LET a == SkipBlanks(text, i)
      b == SkipNonSpace(text, a)
      c == SkipBlanks(text, b)
      d == SkipNonSpace(text, c)
      e == SkipBlanks(text, d)
      f == SkipNonSpace(text, e)
  IN  IF IsLineStart(text, i) /\ b > a /\ c > b /\ d > c
        THEN [ok     |-> TRUE,
              from   |-> SubSeq(text, a, b - 1),
              to     |-> SubSeq(text, c, d - 1),
              hasStatus |-> e > d /\ f > e,
              status |-> IF e > d /\ f > e THEN SubSeq(text, e, f - 1) ELSE <<>>,
              end    |-> IF e > d /\ f > e THEN f ELSE d]
        ELSE [ok |-> FALSE]

\* An escape set that forgets the dot.
RegExpCharsNoDot == {"\\", "^", "$", "*", "+", "?", "(", ")", "[", "]", "{", "}", "|"}

\* The characters _.escapeRegExp escapes.
RegExpChars == {"\\", "^", "$", ".", "*", "+", "?", "(", ")", "[", "]", "{", "}", "|"}

\* _.escapeRegExp(from)
EscapeRegExp(str) ==
  Flatten([i \in 1..Len(str) |->
             IF str[i] \in RegExpChars THEN <<"\\", str[i]>> ELSE <<str[i]>>])

CaptureGroup == <<"(", ".", "*", ")">>

\* .replace(/\\\*/g, '(.*)'): two matches of \* never overlap, so every
\* place where a backslash is followed by a star is a match.
ReplaceEscapedStars(str) ==
  LET IsMatch(i) == i >= 1 /\ i < Len(str) /\ str[i] = "\\" /\ str[i + 1] = "*"
  IN  Flatten([i \in 1..Len(str) |->
                 IF IsMatch(i) THEN CaptureGroup
                 ELSE IF IsMatch(i - 1) THEN <<>>
                 ELSE <<str[i]>>])

TrailingSlashGroup == <<"(", "?", ":", "/", ".", "|", "/", "?", "$", ")">>

\* A translation that keeps the trailing slash as it is.
ReplaceTrailingSlashKept(str) == str

\* .replace(/\/$/, '(?:/.|/?$)')
ReplaceTrailingSlash(str) ==
  IF Len(str) > 0 /\ str[Len(str)] = "/"
    THEN SubSeq(str, 1, Len(str) - 1) \o TrailingSlashGroup
    ELSE str

\* .replace(/\//g, '\\/')
EscapeSlashes(str) ==
  Flatten([i \in 1..Len(str) |-> IF str[i] = "/" THEN <<"\\", "/">> ELSE <<str[i]>>])

\* The translation of from in the replace callback.
CompileFrom(from) ==
  EscapeSlashes(ReplaceTrailingSlash(ReplaceEscapedStars(EscapeRegExp(from))))

\* What a template literal makes of an undefined value.
Undefined == <<"u", "n", "d", "e", "f", "i", "n", "e", "d">>

\* An entry whose missing status is written as 0.
EntryOfZero(m) ==
  <<"[", "/", "^">> \o CompileFrom(m.from) \o <<"/", ",", "'">> \o m.to
    \o <<"'", ",">> \o (IF m.hasStatus THEN m.status ELSE <<"0">>) \o <<"]">>

\* The template literal [/^${ from }/,'${ to }',${ status }]
EntryOf(m) ==
  <<"[", "/", "^">> \o CompileFrom(m.from) \o <<"/", ",", "'">> \o m.to
    \o <<"'", ",">> \o (IF m.hasStatus THEN m.status ELSE Undefined) \o <<"]">>

\* The first match at or after position i; [ok |-> FALSE] when there is none.
FindMatch(text, i) ==
  LET at == {j \in i..Len(text) : MatchAt(text, j).ok}
  IN  IF at = {} THEN [ok |-> FALSE] ELSE MatchAt(text, Min(at))

\* entries.unshift(...)
PushFront(acc, e) == <<e>> \o acc

\* entries.push(...)
Push(acc, e) == Append(acc, e)

RECURSIVE Scan(_, _, _)
\* _redirects.replace(/.../gm, callback): the callback runs once per match,
\* the search going on from the end of the previous match.
Scan(text, i, acc) ==
  LET m == FindMatch(text, i)
  IN  IF m.ok THEN Scan(text, m.end, Push(acc, EntryOf(m))) ELSE acc

\* entries.join(',')
Join(seq, sep) ==
  Flatten([i \in 1..Len(seq) |-> IF i = 1 THEN seq[i] ELSE sep \o seq[i]])

Placeholder == <<"/", "*", "i", "n", "s", "e", "r", "t", "_", "r", "e", "d", "i", "r", "e", "c", "t", "*", "/">>

\* The first position at or after i where pat occurs in text, 0 when none.
IndexOf(text, pat, i) ==
  LET at == {j \in i..(Len(text) - Len(pat) + 1) : SubSeq(text, j, j + Len(pat) - 1) = pat}
  IN  IF at = {} THEN 0 ELSE Min(at)

\* The grave accent (U+0060), which a string of this notation cannot hold.
Backtick == "grave"

\* The number of dollars that stand directly before position i.
DollarsBefore(rep, i) ==
  LET other == {j \in 1..(i - 1) : rep[j] # "$"}
  IN  IF other = {} THEN i - 1 ELSE i - 1 - Max(other)

\* The replacement text of String.prototype.replace for a string pattern:
\* $$ is a dollar, $& the match, $ with a grave accent the text before it,
\* $ with an apostrophe the text after it.
\* The text is read from the left, so a dollar opens a pattern when the
\* dollars before it pair up, that is when their number is even.
Expand(rep, matched, before, after) ==
  LET Opens(i) ==
        /\ i >= 1 /\ i < Len(rep)
        /\ rep[i] = "$"
        /\ rep[i + 1] \in {"$", "&", Backtick, "'"}
        /\ DollarsBefore(rep, i) % 2 = 0
  IN  Flatten([i \in 1..Len(rep) |->
                 IF Opens(i)
                   THEN (CASE rep[i + 1] = "$" -> <<"$">>
                           [] rep[i + 1] = "&" -> matched
                           [] rep[i + 1] = Backtick -> before
                           [] rep[i + 1] = "'" -> after)
                 ELSE IF Opens(i - 1) THEN <<>>
                 ELSE <<rep[i]>>])

\* text.replace(pat, rep) with a string pattern: the first occurrence only.
ReplaceFirst(text, pat, rep) ==
  LET k == IndexOf(text, pat, 1)
  IN  IF k = 0 THEN text
      ELSE LET before == SubSeq(text, 1, k - 1)
               after  == SubSeq(text, k + Len(pat), Len(text))
           IN  before \o Expand(rep, pat, before, after) \o after

\* The build-sw task: read both files, compile the table, write sw.js.
BuildSw ==
  /\ cpc = "start"
  /\ swRead' = swFile
  /\ entries' = Scan(redirectsFile, 1, <<>>)
  /\ swFile' = ReplaceFirst(swFile, Placeholder, Join(entries', <<",">>))
  /\ cpc' = "written"
  /\ UNCHANGED <<redirectsFile, reg, regError, regCall, schedVars>>

\* The compiler's variables while build-sw is not looked at.
NoBuildSw ==
  /\ redirectsFile = <<>>
  /\ swFile = <<>>
  /\ swRead = <<>>
  /\ entries = <<>>
  /\ cpc = "off"

(***************************************************************************)
(* The scheduler.  A scheduler state s is the record of the per-run        *)
(* variables; the operators below are the steps run takes between two      *)
(* suspensions (a suspension happens only at a task body's boundary).      *)
(***************************************************************************)
Terminal == {"done", "failed"}

SchedState(r) ==
  [st      |-> [t \in DOMAIN r |-> "idle"],
   stage   |-> [t \in DOMAIN r |-> 0],
   cause   |-> [t \in DOMAIN r |-> NoError],
   entered |-> [t \in DOMAIN r |-> 0],
   started |-> [t \in DOMAIN r |-> 0],
   flog    |-> <<>>,
   late    |-> {},
   logged  |-> {}]

\* Invoke the task's own body.
StartAction(s, t) == [s EXCEPT !.st[t] = "running", !.started[t] = @ + 1]

Complete(s, t) == [s EXCEPT !.st[t] = "done"]

Fail(s, t, c) == [s EXCEPT !.st[t] = "failed", !.cause[t] = c, !.flog = Append(@, t)]

\* cb is given the error of the pipeline it was passed to and logs its message.
Log(s, t, e) == [s EXCEPT !.logged = @ \cup {<<t, e>>}]

RECURSIVE Activate(_, _, _)
RECURSIVE LaunchAll(_, _, _)

\* Start member m of a stage unless this run already started it.
Launch(r, s, m) == IF s.st[m] = "idle" THEN Activate(r, s, m) ELSE s

\* All tasks of a stage are started together.
LaunchAll(r, s, S) ==
  IF S = {} THEN s
  ELSE LET m == CHOOSE x \in S : TRUE
       IN  CHOOSE x \in {LaunchAll(r, n, S \ {m}) : n \in {Launch(r, s, m)}} : TRUE

EnterStage(r, s, p, k) ==
  LaunchAll(r, [s EXCEPT !.st[p] = "waiting", !.stage[p] = k], r[p].stages[k])

\* Run task t: its stages first, its own body once they are through.
Activate(r, s, t) ==
  LET s1 == [s EXCEPT !.entered[t] = @ + 1,
                      !.late = IF s.flog # <<>> THEN @ \cup {t} ELSE @]
  IN  IF Len(r[t].stages) > 0 THEN EnterStage(r, s1, t, 1)
      ELSE IF r[t].action THEN StartAction(s1, t)
      ELSE Complete(s1, t)

CurrentStage(r, s, p) == r[p].stages[s.stage[p]]

\* The member of F that failed first.
FirstFailed(s, F) ==
  s.flog[CHOOSE i \in 1..Len(s.flog) :
            /\ s.flog[i] \in F
            /\ \A j \in 1..(i - 1) : s.flog[j] \notin F]

\* A scheduler that gives up on a stage at its first failure.
ReadyFailFast(r, s) ==
  {p \in DOMAIN r : /\ s.st[p] = "waiting"
                    /\ \/ \A m \in CurrentStage(r, s, p) : s.st[m] \in Terminal
                       \/ \E m \in CurrentStage(r, s, p) : s.st[m] = "failed"}

\* Tasks whose current stage has wholly finished (every member awaited).
Ready(r, s) ==
  {p \in DOMAIN r : /\ s.st[p] = "waiting"
                    /\ \A m \in CurrentStage(r, s, p) : s.st[m] \in Terminal}

\* A task whose stage is through: fail with the first failure of the stage,
\* or go on to the next stage, or to the task's own body, or complete.
Advance(r, s, p) ==
  LET F == {m \in CurrentStage(r, s, p) : s.st[m] = "failed"}
  IN  IF F # {} THEN Fail(s, p, s.cause[FirstFailed(s, F)])
      ELSE IF s.stage[p] < Len(r[p].stages) THEN EnterStage(r, s, p, s.stage[p] + 1)
      ELSE IF r[p].action THEN StartAction(s, p)
      ELSE Complete(s, p)

RECURSIVE Settle(_, _)
\* Everything the scheduler does before it suspends again.
Settle(r, s) ==
  IF Ready(r, s) = {} THEN s
  ELSE CHOOSE x \in {Settle(r, n) :
                        n \in {Advance(r, s, CHOOSE p \in Ready(r, s) : TRUE)}} : TRUE

Outcome(s, n) ==
  CASE s.st[n] = "done"   -> "resolved"
    [] s.st[n] = "failed" -> "rejected"
    [] OTHER              -> "pending"

Current ==
  [st |-> st, stage |-> stage, cause |-> cause, entered |-> entered,
   started |-> started, flog |-> flog, late |-> late, logged |-> logged]

Becomes(s) ==
  /\ st' = s.st
  /\ stage' = s.stage
  /\ cause' = s.cause
  /\ entered' = s.entered
  /\ started' = s.started
  /\ flog' = s.flog
  /\ late' = s.late
  /\ logged' = s.logged
  /\ outcome' = Outcome(s, root')
  /\ runError' = IF s.st[root'] = "failed" THEN s.cause[root'] ELSE NoError

\* A run that treats a missing task as an empty one.
RunUnknownIgnored(n) ==
  /\ outcome = "none"
  /\ n \notin DOMAIN reg
  /\ root' = n
  /\ outcome' = "resolved"
  /\ runError' = NoError
  /\ UNCHANGED <<reg, regError, regCall, st, stage, cause, entered, started, flog, late, logged, compVars>>

\* run(name) for a name that is not registered.
RunUnknown(n) ==
  /\ outcome = "none"
  /\ n \notin DOMAIN reg
  /\ root' = n
  /\ outcome' = "rejected"
  /\ runError' = UnknownTaskError(n)
  /\ UNCHANGED <<reg, regError, regCall, st, stage, cause, entered, started, flog, late, logged, compVars>>

\* What run(n) would reach: n and its transitive dependencies.
Reached(r, n) == {n} \cup Deps(r, n)

\* The names run(n) would reach that no task is registered under.
Unregistered(r, n) == Reached(r, n) \ DOMAIN r

\* The tasks run(n) would reach that are among their own dependencies.
OnCycle(r, n) == {m \in Reached(r, n) \cap DOMAIN r : m \in Deps(r, m)}

\* run(name) ends at once, with error err, before any task is started.
Refuse(err) ==
  /\ outcome' = "rejected"
  /\ runError' = err
  /\ UNCHANGED <<st, stage, cause, entered, started, flog, late, logged>>

\* run(name) for a registered name.
Run(n) ==
  /\ outcome = "none"
  /\ n \in DOMAIN reg
  /\ root' = n
  /\ IF Unregistered(reg, n) # {}
       THEN Refuse(UnknownTaskError(CHOOSE m \in Unregistered(reg, n) : TRUE))
       ELSE IF OnCycle(reg, n) # {}
         THEN Refuse(CycleError(CHOOSE m \in OnCycle(reg, n) : TRUE))
         ELSE \E a \in {Activate(reg, Current, n)} :
                \E s \in {Settle(reg, a)} : Becomes(s)
  /\ UNCHANGED <<reg, regError, regCall, compVars>>

\* The body of task t completes.
FinishOk(t) ==
  /\ st[t] = "running"
  /\ root' = root
  /\ \E s \in {Settle(reg, Complete(Current, t))} : Becomes(s)
  /\ UNCHANGED <<reg, regError, regCall, compVars>>

\* The body of task t fails with error e: a pipeline that was given cb hands
\* the error to cb and the task ends as completed; any other body passes the
\* error to the scheduler.
FinishErr(t, e) ==
  /\ st[t] = "running"
  /\ root' = root
  /\ IF t \in LogAndContinue
       THEN \E s \in {Settle(reg, Complete(Log(Current, t, e), t))} : Becomes(s)
       ELSE \E s \in {Settle(reg, Fail(Current, t, TaskFailureError(t, e)))} : Becomes(s)
  /\ UNCHANGED <<reg, regError, regCall, compVars>>

Init ==
  /\ reg = Gulpfile
  /\ regError = NoError
  /\ regCall = NoCall
  /\ root = ""
  /\ st = SchedState(Gulpfile).st
  /\ stage = SchedState(Gulpfile).stage
  /\ cause = SchedState(Gulpfile).cause
  /\ entered = SchedState(Gulpfile).entered
  /\ started = SchedState(Gulpfile).started
  /\ flog = <<>>
  /\ late = {}
  /\ logged = {}
  /\ outcome = "none"
  /\ runError = NoError
  /\ NoBuildSw

Next ==
  \/ \E n \in TaskNames \cup {UnknownName} : RunUnknown(n)
  \/ \E n \in TaskNames : Run(n)
  \/ \E t \in TaskNames : FinishOk(t)
  \/ \E t \in TaskNames, e \in Errors : FinishErr(t, e)

Spec == Init /\ [][Next]_vars

\* The errors the bodies fail with in the runs of FairSpec.
BuildErrors == {"E1"}

\* run('build') and the ends of the bodies it starts.
BuildNext ==
  \/ Run("build")
  \/ \E t \in TaskNames : FinishOk(t)
  \/ \E t \in TaskNames, e \in BuildErrors : FinishErr(t, e)

\* The body of some task in flight ends, one way or the other.
Finish == \E t \in TaskNames : FinishOk(t) \/ \E e \in BuildErrors : FinishErr(t, e)

\* run('build') where every body that was started ends.
FairSpec == Init /\ [][BuildNext]_vars /\ WF_vars(Finish)

(***************************************************************************)
(* Registration.  The gulpfile's gulp.task statements are the register     *)
(* calls; RegisterSpec replays some of them, in any order and repeatedly,   *)
(* each either with the definition the gulpfile gives the name or with     *)
(* another one.                                                            *)
(***************************************************************************)
RegNames == {"build-js", "build-sw", "minify-js", "minify-sw"}

RegDefs(n) == {Gulpfile[n], Group(<< {"build-sw"} >>)}

EmptyRegistry == [n \in {} |-> Leaf]

\* A register that silently replaces an existing definition.
RegisterOverwrite(n, d) ==
  /\ regCall' = [name |-> n, def |-> d]
  /\ regError' = NoError
  /\ reg' = (n :> d) @@ reg
  /\ UNCHANGED <<schedVars, compVars>>

\* register(name, dependencies, action)
Register(n, d) ==
  /\ regCall' = [name |-> n, def |-> d]
  /\ IF n \in DOMAIN reg
       THEN /\ regError' = DuplicateTaskError(n)
            /\ reg' = reg
       ELSE /\ regError' = NoError
            /\ reg' = (n :> d) @@ reg
  /\ UNCHANGED <<schedVars, compVars>>

RegisterInit ==
  /\ reg = EmptyRegistry
  /\ regError = NoError
  /\ regCall = NoCall
  /\ root = ""
  /\ st = SchedState(Gulpfile).st
  /\ stage = SchedState(Gulpfile).stage
  /\ cause = SchedState(Gulpfile).cause
  /\ entered = SchedState(Gulpfile).entered
  /\ started = SchedState(Gulpfile).started
  /\ flog = <<>>
  /\ late = {}
  /\ logged = {}
  /\ outcome = "none"
  /\ runError = NoError
  /\ NoBuildSw

RegisterNext == \E n \in RegNames : \E d \in RegDefs(n) : Register(n, d)

RegisterSpec == RegisterInit /\ [][RegisterNext]_vars

(***************************************************************************)
(* Inputs of build-sw: redirect tables of up to MaxLines lines taken from  *)
(* TableLines, and tables of one rule whose from is any text of up to      *)
(* MaxFromLen characters of FromChars.                                     *)
(***************************************************************************)
MaxLines == 3

MaxFromLen == 3

CommentLine == <<"#", " ", "c", "o", "m", "m", "e", "n", "t">>

OldLine == <<"/", "o", "l", "d", "/", " ", "/", "n", "e", "w", "/", " ", "3", "0", "1">>

StarLine == <<"/", "a", "/", "*", " ", "/", "b", "/", "$", "1">>

ZeroLine == <<"/", "z", " ", "/", "y", " ", "0">>

UndefinedLine == <<"/", "u", " ", "/", "v", " ", "u", "n", "d", "e", "f", "i", "n", "e", "d">>

DollarLine == <<"/", "s", " ", "/", "t", "$", "&">>

TableLines ==
  { ZeroLine, UndefinedLine, DollarLine, <<>>, CommentLine, <<"#", "c", "o", "m", "m", "e", "n", "t">>, OldLine, StarLine, <<" ", "\t", "/", "x", "\t", "/", "y", " ", " ", "0">>, <<"/", "q", " ", "/", "r", " ">> }

FromChars == {"/", "a", "*", ".", "\\"}

Texts(S, n) == UNION {[1..k -> S] : k \in 0..n}

RECURSIVE Lines2Text(_)
\* Each line followed by a line end.
Lines2Text(ls) ==
  IF ls = <<>> THEN <<>> ELSE Head(ls) \o <<"\n">> \o Lines2Text(Tail(ls))

Tables ==
  {Lines2Text(ls) : ls \in Texts(TableLines, MaxLines)}
    \cup {f \o <<" ", "/", "t">> : f \in Texts(FromChars, MaxFromLen) \ {<<>>}}

SwSources ==
  { <<"[">> \o Placeholder \o <<"]">>,
    <<"[", "]">>,
    <<"x">> \o Placeholder \o <<";">> \o Placeholder }

CompileInit ==
  /\ reg = Gulpfile
  /\ regError = NoError
  /\ regCall = NoCall
  /\ root = ""
  /\ st = SchedState(Gulpfile).st
  /\ stage = SchedState(Gulpfile).stage
  /\ cause = SchedState(Gulpfile).cause
  /\ entered = SchedState(Gulpfile).entered
  /\ started = SchedState(Gulpfile).started
  /\ flog = <<>>
  /\ late = {}
  /\ logged = {}
  /\ outcome = "none"
  /\ runError = NoError
  /\ redirectsFile \in Tables
  /\ swFile \in SwSources
  /\ swRead = <<>>
  /\ entries = <<>>
  /\ cpc = "start"

CompileNext == BuildSw

CompileSpec == CompileInit /\ [][CompileNext]_vars

(***************************************************************************)
(* The files the task bodies read and write.  A path is its directories,   *)
(* the stem of its file name and its extension; the globs of the gulpfile  *)
(* are predicates on paths.                                                *)
(***************************************************************************)
Path(dir, stem, ext) == [dir |-> dir, stem |-> stem, ext |-> ext]

ConfigYml == Path(<<>>, "_config", "yml")

HeadersFile == Path(<<"_site">>, "_headers", "")

RedirectsFile == Path(<<"_site">>, "_redirects", "")

SwJs == Path(<<"_site">>, "sw", "js")

FaviconIco == Path(<<"_site">>, "favicon", "ico")

\* The stems the glob favicon-* matches.
FaviconStems == {"favicon-16", "favicon-32"}

\* Some paths of the working tree, each glob of the gulpfile matching some.
Files ==
  { ConfigYml, HeadersFile, RedirectsFile, SwJs, FaviconIco,
    Path(<<"assets", "img">>, "lodash", "svg"),
    Path(<<"node_modules", "pkg">>, "logo", "png"),
    Path(<<"_site">>, "index", "html"),
    Path(<<"_site">>, "manifest", "json"),
    Path(<<"_site">>, "sitemap", "xml"),
    Path(<<"_site", "docs">>, "index", "html"),
    Path(<<"_site", "icons">>, "favicon-16", "png"),
    Path(<<"_site", "icons">>, "favicon-32", "png"),
    Path(<<"_site", "icons">>, "apple-touch", "png"),
    Path(<<"_site", "assets", "img">>, "lodash", "svg"),
    Path(<<"_site", "assets", "css">>, "main", "css"),
    Path(<<"_site", "assets", "js">>, "boot", "js"),
    Path(<<"_site", "vendor">>, "lib", "js") }

\* dir/**/*
Under(f, dir) == Len(f.dir) >= Len(dir) /\ SubSeq(f.dir, 1, Len(dir)) = dir

\* _site/**/*.ext
SiteGlob(exts) == {f \in Files : Under(f, <<"_site">>) /\ f.ext \in exts}

\* ['**/*.{png,svg}', '!node_modules/**/*', '!_site/**/*']
AppIconsSrc ==
  {f \in Files : /\ f.ext \in {"png", "svg"}
                 /\ ~Under(f, <<"node_modules">>)
                 /\ ~Under(f, <<"_site">>)}

\* gulp.dest('_site/icons/')
AppIconsDest == {f \in Files : Under(f, <<"_site", "icons">>)}

\* _site/icons/favicon-*.png
FaviconSrc ==
  {f \in Files : f.dir = <<"_site", "icons">> /\ f.stem \in FaviconStems /\ f.ext = "png"}

\* ['_site/**/*.html', '_site/assets/**/*.js']
PurifySrc ==
  SiteGlob({"html"}) \cup {f \in Files : Under(f, <<"_site", "assets">>) /\ f.ext = "js"}

\* The glob of minify-js without its exclusion of _site/sw.js.
MinifyJsSrcAll == SiteGlob({"js"})

\* ['_site/**/*.js', '!_site/sw.js']
MinifyJsSrc == SiteGlob({"js"}) \ {SwJs}

\* The files the body of task t reads.
Reads(t) ==
  CASE t = "build-config"    -> {ConfigYml}
    [] t = "build-app-icons" -> AppIconsSrc
    [] t = "build-favicon"   -> FaviconSrc
    [] t = "build-headers"   -> {HeadersFile}
    [] t = "build-redirects" -> {RedirectsFile}
    [] t = "build-sw"        -> {RedirectsFile, SwJs}
    [] t = "minify-css"      -> SiteGlob({"css"}) \cup PurifySrc
    [] t = "minify-html"     -> SiteGlob({"html"})
    [] t = "minify-images"   -> SiteGlob({"png", "svg"})
    [] t = "minify-js"       -> MinifyJsSrc
    [] t = "minify-json"     -> SiteGlob({"json"})
    [] t = "minify-sw"       -> {SwJs}
    [] t = "minify-xml"      -> SiteGlob({"xml"})
    [] OTHER                 -> {}

\* The files the body of task t writes; gulp.dest(base) writes every file of
\* the pipeline back to the path it was read from.
Writes(t) ==
  CASE t = "build-config"    -> {ConfigYml}
    [] t = "build-app-icons" -> AppIconsDest
    [] t = "build-favicon"   -> {FaviconIco}
    [] t = "build-headers"   -> {HeadersFile}
    [] t = "build-redirects" -> {RedirectsFile}
    [] t = "build-sw"        -> {SwJs}
    [] t = "minify-css"      -> SiteGlob({"css"})
    [] t = "minify-html"     -> SiteGlob({"html"})
    [] t = "minify-images"   -> SiteGlob({"png", "svg"})
    [] t = "minify-js"       -> MinifyJsSrc
    [] t = "minify-json"     -> SiteGlob({"json"})
    [] t = "minify-sw"       -> {SwJs}
    [] t = "minify-xml"      -> SiteGlob({"xml"})
    [] OTHER                 -> {}

\* The tasks whose body fetches from the network.
Fetches == {"build-config"}

(***************************************************************************)
(* Properties of the scheduler.                                            *)
(***************************************************************************)
InFlight == {t \in DOMAIN st : st[t] \in {"waiting", "running"}}

Stage1OfBuild == {"build-headers", "build-metadata", "build-redirects"}

Stage2OfBuild == {"build-css", "build-html", "build-images", "build-js"}

C2_StagesInOrder ==
  /\ \A p \in DOMAIN reg :
       entered[p] > 0 =>
         \A k \in 1..(Len(reg[p].stages) - 1) :
           (\E m \in Closure(reg, reg[p].stages[k + 1], Cardinality(DOMAIN reg)) : entered[m] > 0)
             => \A x \in Closure(reg, reg[p].stages[k], Cardinality(DOMAIN reg)) : st[x] = "done"
  /\ root = "build" =>
       ((\E m \in {"build-css", "build-html", "build-images", "build-js",
                   "minify-css", "minify-html", "build-app-icons", "build-favicon",
                   "minify-images", "build-sw", "minify-js", "minify-sw"} : entered[m] > 0)
          => \A x \in {"build-headers", "build-metadata", "minify-json",
                       "minify-xml", "build-redirects"} : st[x] = "done")

C2_Witness ==
  /\ root = "build"
  /\ st["minify-sw"] = "running"
  /\ st["build-favicon"] = "running"

\* C3: while a sibling of a failed task is still in flight the parent has not
\* failed and run has not rejected; once the stage is through, the parent
\* fails with the TaskFailureError of the task that failed, which names that
\* task and carries its original error, whatever the order of the two events.
C3_AwaitSiblingsThenFail ==
  /\ \A p \in DOMAIN reg :
       stage[p] > 0 =>
         LET S == CurrentStage(reg, Current, p)
         IN  /\ \A A \in S, B \in S :
                  (st[A] = "failed" /\ st[B] \notin Terminal)
                    => (st[p] = "waiting" /\ outcome = "pending")
             /\ st[p] = "failed" => \A m \in S : st[m] \in Terminal
             /\ \A A \in S :
                  (st[p] = "failed" /\ reg[A].action /\ {m \in S : st[m] = "failed"} = {A})
                    => /\ cause[p] = cause[A]
                       /\ cause[p].type = "TaskFailureError"
                       /\ cause[p].task = A
                       /\ cause[p].error \in Errors
  /\ (outcome = "rejected" /\ root \in DOMAIN reg) =>
       /\ InFlight = {}
       /\ runError = cause[root]

C3_Witness ==
  /\ root = "build"
  /\ outcome = "rejected"
  /\ st["build-headers"] = "failed"
  /\ st["build-redirects"] = "done"
  /\ st["build-metadata"] = "done"
  /\ runError = TaskFailureError("build-headers", "E1")

C5_RegisterDuplicate ==
  [][ IF regCall'.name \in DOMAIN reg
        THEN /\ regError' = DuplicateTaskError(regCall'.name)
             /\ reg' = reg
        ELSE /\ regError' = NoError
             /\ DOMAIN reg' = DOMAIN reg \cup {regCall'.name}
             /\ reg'[regCall'.name] = regCall'.def
             /\ \A m \in DOMAIN reg : reg'[m] = reg[m] ]_vars

C5_Witness ==
  /\ regError = DuplicateTaskError("build-js")
  /\ regCall.def # Gulpfile["build-js"]
  /\ reg["build-js"] = Gulpfile["build-js"]

\* C6: run of a name that is not registered rejects with UnknownTaskError
\* and starts no task.
C6_RunUnknown ==
  (root # "" /\ root \notin DOMAIN reg) =>
    /\ outcome = "rejected"
    /\ runError = UnknownTaskError(root)
    /\ \A t \in DOMAIN st : entered[t] = 0 /\ started[t] = 0 /\ st[t] = "idle"

C6_Witness ==
  /\ root = UnknownName
  /\ outcome = "rejected"
  /\ runError.type = "UnknownTaskError"

(***************************************************************************)
(* Properties of the redirect compiler.  The table is read here line by    *)
(* line and word by word, and a compiled matcher is read back the way a    *)
(* regular-expression literal is read.                                     *)
(***************************************************************************)
\* The elements of a set of numbers in increasing order.
Sorted(S) ==
  [k \in 1..Cardinality(S) |-> CHOOSE x \in S : Cardinality({y \in S : y < x}) = k - 1]

\* The lines of a text: the pieces between its line ends.
SplitLines(text) ==
  LET NL     == {i \in 1..Len(text) : text[i] = "\n"}
      starts == Sorted({1} \cup {i + 1 : i \in NL})
  IN  [k \in 1..Len(starts) |->
         SubSeq(text, starts[k], Min({i \in NL : i >= starts[k]} \cup {Len(text) + 1}) - 1)]

\* The words of a line: its longest runs of characters other than space and tab.
Words(line) ==
  LET starts == Sorted({i \in 1..Len(line) :
                          ~IsBlank(line[i]) /\ (i = 1 \/ IsBlank(line[i - 1]))})
  IN  [k \in 1..Len(starts) |->
         SubSeq(line, starts[k],
                Min({j \in starts[k]..Len(line) : IsBlank(line[j])} \cup {Len(line) + 1}) - 1)]

\* A line is a rule when it holds a from and a to.
IsRule(line) == Len(Words(line)) >= 2

RuleLines(text) == SelectSeq(SplitLines(text), IsRule)

\* A comment line: its first word starts with #.
IsComment(line) == Words(line) # <<>> /\ Words(line)[1][1] = "#"

IsRuleNotComment(line) == IsRule(line) /\ ~IsComment(line)

\* The triple of a rule line.
TripleOf(line) ==
  LET w == Words(line)
  IN  <<"[", "/", "^">> \o CompileFrom(w[1]) \o <<"/", ",", "'">> \o w[2] \o <<"'", ",">>
        \o (IF Len(w) >= 3 THEN w[3] ELSE Undefined) \o <<"]">>

\* The number of backslashes that stand directly before position i.
BackslashesBefore(str, i) ==
  LET other == {j \in 1..(i - 1) : str[j] # "\\"}
  IN  IF other = {} THEN i - 1 ELSE i - 1 - Max(other)

\* A character is escaped when an odd number of backslashes precedes it.
Escaped(str, i) == BackslashesBefore(str, i) % 2 = 1

\* The source of the regular-expression literal an entry opens with: what
\* stands between the slash after [ and the next slash that is not escaped.
MatcherOf(entry) ==
  LET ends == {j \in 3..Len(entry) : entry[j] = "/" /\ ~Escaped(entry, j)}
  IN  SubSeq(entry, 3, Min(ends \cup {Len(entry) + 1}) - 1)

NonCapturingTail == <<"(", "?", ":", "\\", "/", ".", "|", "\\", "/", "?", "$", ")">>

StartsWith(str, i, pat) ==
  i >= 1 /\ i + Len(pat) - 1 <= Len(str) /\ SubSeq(str, i, i + Len(pat) - 1) = pat

Lit(c) == [t |-> "lit", c |-> c]

Cap == [t |-> "cap", c |-> ""]

TailAlt == [t |-> "tail", c |-> ""]

Special(c) == [t |-> "special", c |-> c]

\* The characters that are operators of the pattern language when unescaped.
PatternOperators == {"\\", "^", "$", ".", "*", "+", "?", "(", ")", "[", "]", "{", "}", "|", "/"}

\* The pattern of a matcher as a sequence of items: a literal character (an
\* escaped character or a plain one), a capture group (.*), the alternation
\* (?:\/.|\/?$), or a pattern operator that stands unescaped.
ParseMatcher(body) ==
  LET CapAt(i)  == ~Escaped(body, i) /\ StartsWith(body, i, CaptureGroup)
      TailAt(i) == ~Escaped(body, i) /\ StartsWith(body, i, NonCapturingTail)
      Inside(i) ==
        \/ \E k \in 1..(Len(CaptureGroup) - 1) : CapAt(i - k)
        \/ \E k \in 1..(Len(NonCapturingTail) - 1) : TailAt(i - k)
  IN  Flatten([i \in 1..Len(body) |->
        IF Inside(i) THEN <<>>
        ELSE IF CapAt(i) THEN <<Cap>>
        ELSE IF TailAt(i) THEN <<TailAlt>>
        ELSE IF Escaped(body, i) THEN <<Lit(body[i])>>
        ELSE IF body[i] = "\\" THEN <<>>
        ELSE IF body[i] \in PatternOperators THEN <<Special(body[i])>>
        ELSE <<Lit(body[i])>>])

\* The items a from should turn into.
ItemsOf(from) ==
  [i \in 1..Len(from) |->
     IF from[i] = "*" THEN Cap
     ELSE IF i = Len(from) /\ from[i] = "/" THEN TailAlt
     ELSE Lit(from[i])]

RECURSIVE Reach(_, _, _, _)
\* The positions of path at which items k.. can end when they start at a
\* position of P.
Reach(items, k, path, P) ==
  IF k > Len(items) THEN P
  ELSE LET n == Len(path)
           Q == CASE items[k].t = "lit" ->
                       {p + 1 : p \in {q \in P : q < n /\ path[q + 1] = items[k].c}}
                  [] items[k].t = "cap" ->
                       {q \in 0..n : \E p \in P : p <= q}
                  [] items[k].t = "tail" ->
                       {p + 2 : p \in {q \in P : q + 2 <= n /\ path[q + 1] = "/"}}
                         \cup {p \in P : p = n}
                         \cup {p + 1 : p \in {q \in P : q + 1 = n /\ path[q + 1] = "/"}}
                  [] OTHER -> {}
       IN  Reach(items, k + 1, path, Q)

\* Whether the matcher /^body/ matches path.
Accepts(body, path) ==
  /\ body # <<>>
  /\ body[1] = "^"
  /\ Reach(ParseMatcher(Tail(body)), 1, path, {0}) # {}

Count(str, c) == Cardinality({i \in 1..Len(str) : str[i] = c})

Written == cpc = "written"

\* A text in which a dollar is followed by $, &, a grave accent or an apostrophe.
HasDollarPattern(text) ==
  \E i \in 1..(Len(text) - 1) :
     text[i] = "$" /\ text[i + 1] \in {"$", "&", Backtick, "'"}

\* C7: build-sw pushes exactly one entry per line that is a rule, in the
\* order of the lines, and the text put in place of the placeholder is these
\* entries, in that order, with commas between them.
C7_OneEntryPerRuleInOrder ==
  Written =>
    LET R == RuleLines(redirectsFile)
        k == IndexOf(swRead, Placeholder, 1)
    IN  /\ Len(entries) = Len(R)
        /\ \A i \in 1..Len(R) : entries[i] = TripleOf(R[i])
        /\ (k > 0 /\ ~HasDollarPattern(Join(entries, <<",">>))) =>
             swFile = SubSeq(swRead, 1, k - 1)
                        \o Flatten([i \in 1..Len(R) |->
                                      IF i = 1 THEN TripleOf(R[i]) ELSE <<",">> \o TripleOf(R[i])])
                        \o SubSeq(swRead, k + Len(Placeholder), Len(swRead))

C7_Witness ==
  /\ Written
  /\ redirectsFile = Lines2Text(<<StarLine, <<>>, OldLine>>)
  /\ Len(entries) = 2
  /\ entries[1] # entries[2]
  /\ IndexOf(swRead, Placeholder, 1) > 0

\* C8 (as claimed): comment lines and blank lines produce no entry: the
\* entries are those of the lines that are rules and not comments.
C8_CommentsAndBlankLinesSkipped ==
  Written => Len(entries) = Len(SelectSeq(SplitLines(redirectsFile), IsRuleNotComment))

\* C9: every matcher opens with ^, and read as a pattern it is, item by item,
\* the from of its rule: a capture group for each *, in the same place, a
\* non-capturing alternation for a slash at the end, and a literal character
\* for every other character; so it holds as many capture groups as the from
\* holds stars and no pattern operator of the from is left unescaped.
C9_MatcherAnchoredCapturesPerStar ==
  Written =>
    LET R == RuleLines(redirectsFile)
    IN  /\ Len(entries) = Len(R)
        /\ \A i \in 1..Len(entries) :
             LET from  == Words(R[i])[1]
                 body  == MatcherOf(entries[i])
                 items == ParseMatcher(Tail(body))
             IN  /\ SubSeq(entries[i], 1, 3) = <<"[", "/", "^">>
                 /\ items = ItemsOf(from)
                 /\ Cardinality({j \in 1..Len(items) : items[j] = Cap}) = Count(from, "*")
                 /\ \A j \in 1..Len(items) : items[j].t # "special"

C9_Witness ==
  /\ Written
  /\ redirectsFile = <<"*", ".", "*", " ", "/", "t">>
  /\ Len(entries) = 1
  /\ ParseMatcher(Tail(MatcherOf(entries[1]))) = <<Cap, Lit("."), Cap>>

\* C10: the matcher of a rule whose from holds no star and ends with a slash
\* matches the from without that slash, the from itself and the from followed
\* by a further character, and does not match the from without the slash
\* followed directly by a character other than a slash; the rule
\* /old/ /new/ 301 compiles to [/^\/old(?:\/.|\/?$)/,'/new/',301].
C10_TrailingSlashOptional ==
  Written =>
    LET R == RuleLines(redirectsFile)
    IN  /\ Len(entries) = Len(R)
        /\ \A i \in 1..Len(entries) :
             LET from == Words(R[i])[1]
                 q    == SubSeq(from, 1, Len(from) - 1)
                 body == MatcherOf(entries[i])
             IN  /\ (from[Len(from)] = "/" /\ Count(from, "*") = 0) =>
                       /\ Accepts(body, q)
                       /\ Accepts(body, q \o <<"/">>)
                       /\ Accepts(body, q \o <<"/", "x">>)
                       /\ ~Accepts(body, q \o <<"x">>)
                 /\ R[i] = OldLine =>
                       /\ entries[i] = <<"[", "/", "^", "\\", "/", "o", "l", "d", "(", "?", ":", "\\", "/", ".", "|", "\\", "/", "?", "$", ")", "/", ",", "'", "/", "n", "e", "w", "/", "'", ",", "3", "0", "1", "]">>
                       /\ Accepts(body, <<"/", "o", "l", "d">>)
                       /\ Accepts(body, <<"/", "o", "l", "d", "/">>)
                       /\ Accepts(body, <<"/", "o", "l", "d", "/", "x">>)
                       /\ ~Accepts(body, <<"/", "o", "l", "d", "x">>)

C10_Witness ==
  /\ Written
  /\ redirectsFile = Lines2Text(<<OldLine>>)
  /\ Len(entries) = 1
  /\ Accepts(MatcherOf(entries[1]), <<"/", "o", "l", "d">>)

\* What follows the matcher in an entry, without the closing bracket.
AfterMatcher(entry) ==
  SubSeq(entry, 3 + Len(MatcherOf(entry)) + 1, Len(entry) - 1)

\* The target of an entry: what stands between ,' and the next ',
TargetOf(entry) ==
  LET rest == AfterMatcher(entry)
      stop == {j \in 3..(Len(rest) - 1) : rest[j] = "'" /\ rest[j + 1] = ","}
  IN  SubSeq(rest, 3, Min(stop \cup {Len(rest) + 1}) - 1)

\* The status of an entry: what follows the target's ',
StatusOf(entry) ==
  LET rest == AfterMatcher(entry)
  IN  SubSeq(rest, 3 + Len(TargetOf(entry)) + 2, Len(rest))

HasStatus(line) == Len(Words(line)) >= 3

\* The parts of C11 that hold of every rule: the target of the entry is the
\* to of the line; a written status is the status of the entry, character by
\* character; a line without status gets the status undefined.
C11_Verbatim ==
  Written =>
    LET R == RuleLines(redirectsFile)
    IN  /\ Len(entries) = Len(R)
        /\ \A i \in 1..Len(entries) :
             /\ SubSeq(AfterMatcher(entries[i]), 1, 2) = <<",", "'">>
             /\ TargetOf(entries[i]) = Words(R[i])[2]
             /\ HasStatus(R[i]) => StatusOf(entries[i]) = Words(R[i])[3]
             /\ ~HasStatus(R[i]) => StatusOf(entries[i]) = Undefined

\* C11 (as amended): C11_Verbatim, and the status of a rule without status
\* differs from the status of every rule of the table that writes one,
\* the falsy 0 included, unless the status written is the word undefined.
C11_StatusAbsentIsUndefined ==
  /\ C11_Verbatim
  /\ Written =>
       LET R == RuleLines(redirectsFile)
       IN  \A i \in 1..Len(entries), j \in 1..Len(entries) :
             (i <= Len(R) /\ j <= Len(R) /\ ~HasStatus(R[i]) /\ HasStatus(R[j])
                /\ Words(R[j])[3] # Undefined)
               => StatusOf(entries[i]) # StatusOf(entries[j])

C11_Witness ==
  /\ Written
  /\ redirectsFile = Lines2Text(<<StarLine, ZeroLine>>)
  /\ Len(entries) = 2
  /\ TargetOf(entries[1]) = <<"/", "b", "/", "$", "1">>
  /\ StatusOf(entries[1]) = Undefined
  /\ StatusOf(entries[2]) = <<"0">>

\* C11 (as claimed): the status of a rule without status differs from the
\* status of every rule that writes one.
C11_AbsentDiffersFromEveryWritten ==
  /\ C11_Verbatim
  /\ Written =>
       LET R == RuleLines(redirectsFile)
       IN  \A i \in 1..Len(entries), j \in 1..Len(entries) :
             (i <= Len(R) /\ j <= Len(R) /\ ~HasStatus(R[i]) /\ HasStatus(R[j]))
               => StatusOf(entries[i]) # StatusOf(entries[j])

\* C12 (as claimed): the first placeholder of the script is replaced by the
\* entries joined with commas and the rest of the script is as it was read;
\* a script without placeholder is written back as it was read.
C12_PlaceholderReplacedOnce ==
  Written =>
    LET k == IndexOf(swRead, Placeholder, 1)
    IN  IF k = 0 THEN swFile = swRead
        ELSE swFile = SubSeq(swRead, 1, k - 1)
                        \o Flatten([i \in 1..Len(entries) |->
                                      IF i = 1 THEN entries[i] ELSE <<",">> \o entries[i]])
                        \o SubSeq(swRead, k + Len(Placeholder), Len(swRead))

(***************************************************************************)
(* Properties of the build: files, failures, termination.                  *)
(***************************************************************************)
\* The tasks whose body is in flight.
Running == {t \in DOMAIN st : st[t] = "running"}

\* <<producer, consumer, file>>: the files one task of the build generates
\* and another one reads.
Generated ==
  { <<"build-redirects", "build-sw", RedirectsFile>>,
    <<"build-sw", "minify-sw", SwJs>> }
  \cup {<<"build-app-icons", "build-favicon", f>> : f \in FaviconSrc}

\* C13: in run('build') the body of a consumer (build-sw, minify-sw,
\* build-favicon) has started only if its producer (build-redirects, build-sw,
\* build-app-icons) has completed; the file is one the producer writes and
\* the consumer reads.
C13_ConsumersAfterProducers ==
  root = "build" =>
    \A g \in Generated :
       /\ g[3] \in Writes(g[1]) \cap Reads(g[2])
       /\ started[g[2]] > 0 => st[g[1]] = "done"

C13_Witness ==
  /\ root = "build"
  /\ st["build-sw"] = "running"
  /\ st["build-redirects"] = "done"
  /\ st["build-favicon"] = "done"
  /\ st["build-app-icons"] = "done"

\* C14: the bodies of two different tasks that are in flight at the same time
\* write no path in common.
C14_ConcurrentWritesDisjoint ==
  \A a \in Running, b \in Running :
     a # b => Writes(a) \cap Writes(b) = {}

C14_Witness ==
  /\ root = "build"
  /\ {"minify-js", "minify-sw", "minify-css", "minify-html"} \subseteq Running
  /\ Writes("minify-js") # {}
  /\ Writes("minify-sw") = {SwJs}

\* The tasks claim C15 names as log-and-continue, and the other ones.
CbTasks ==
  {"build-app-icons", "minify-html", "minify-images", "minify-js",
   "minify-json", "minify-sw", "minify-xml"}

NoCbTasks ==
  {"minify-css", "build-sw", "build-favicon", "build-headers", "build-redirects"}

\* C15: a failure of a log-and-continue task is logged, the task counts as
\* completed, and a run('build') in which only such failures happened
\* resolves after having run every task below build; a failure of any other
\* task is not logged by cb and makes run('build') reject, with the
\* TaskFailureError of such a task, once nothing is in flight.
C15_FailurePerTask ==
  /\ \A l \in logged : l[1] \in CbTasks /\ st[l[1]] = "done" /\ cause[l[1]] = NoError
  /\ \A t \in CbTasks : st[t] # "failed"
  /\ root = "build" =>
       /\ \A i \in 1..Len(flog) : reg[flog[i]].action => flog[i] \in NoCbTasks
       /\ (flog = <<>> /\ InFlight = {}) =>
            /\ outcome = "resolved"
            /\ \A t \in Deps(reg, "build") \ {"build-config"} : entered[t] = 1 /\ st[t] = "done"
       /\ (\E t \in NoCbTasks : st[t] = "failed") =>
            /\ outcome \in {"pending", "rejected"}
            /\ InFlight = {} =>
                 /\ outcome = "rejected"
                 /\ runError.type = "TaskFailureError"
                 /\ runError.task \in NoCbTasks
       /\ outcome = "rejected" => \E t \in NoCbTasks : st[t] = "failed"

C15_Witness ==
  /\ root = "build"
  /\ outcome = "resolved"
  /\ {<<"minify-json", "E1">>, <<"build-app-icons", "E2">>, <<"minify-sw", "E1">>} \subseteq logged
  /\ st["minify-images"] = "done"

\* C16 (as claimed): the body of a task in flight reads no file that the body
\* of another task in flight writes.
C16_NoReadWhileWritten ==
  \A a \in Running, b \in Running :
     a # b => Reads(a) \cap Writes(b) = {}

\* C17: every name a registered task lists is registered and no task is among
\* its own transitive dependencies; run of a registered name never ends with
\* UnknownTaskError or CycleError.
C17_ClosedAcyclic ==
  /\ \A n \in DOMAIN reg : Members(reg, n) \subseteq DOMAIN reg /\ n \notin Deps(reg, n)
  /\ root \in DOMAIN reg => runError.type \notin {"UnknownTaskError", "CycleError"}

C17_Witness ==
  /\ root = "build-images"
  /\ outcome = "rejected"
  /\ runError = TaskFailureError("build-favicon", "E2")

BuildEnded == outcome \in {"resolved", "rejected"} /\ InFlight = {}

\* C18: when every body that was started ends, run('build') ends resolved or
\* rejected with no task in flight; a run that has an outcome has no task in
\* flight, and a run('build') in which no body failed resolves.
C18_BuildTerminates ==
  /\ [](outcome \in {"resolved", "rejected"} => InFlight = {})
  /\ []((root = "build" /\ outcome # "pending" /\ flog = <<>> /\ logged = {})
          => outcome = "resolved")
  /\ (root = "build") ~> BuildEnded

C18_Witness ==
  /\ root = "build"
  /\ BuildEnded
  /\ outcome = "resolved"
  /\ flog = <<>>
  /\ logged = {}

\* C19: a run starts only the task it was given and that task's transitive
\* dependencies; run('build') never starts build-config, so no body that
\* writes _config.yml or fetches from the network is started.
C19_OnlyDependenciesStart ==
  /\ root \in DOMAIN reg =>
       \A t \in DOMAIN st :
          (entered[t] > 0 \/ started[t] > 0) => t \in {root} \cup Deps(reg, root)
  /\ root = "build" =>
       /\ entered["build-config"] = 0
       /\ st["build-config"] = "idle"
       /\ \A t \in DOMAIN st :
            started[t] > 0 => (ConfigYml \notin Writes(t) /\ t \notin Fetches)

C19_Witness ==
  /\ root = "build"
  /\ outcome = "rejected"
  /\ started["build-sw"] = 1
  /\ entered["build-config"] = 0
  /\ started["build-config"] = 0

TypeOK ==
  /\ st \in [TaskNames -> {"idle", "waiting", "running", "done", "failed"}]
  /\ outcome \in {"none", "pending", "resolved", "rejected"}

====
